---- MODULE Spec2Model ----
(***************************************************************************)
(* chewwy: layered configuration merge (cfg.rs, bin/chewer.rs main) and    *)
(* the format-resolution / decompression pipeline (file_archiver.rs).      *)
(*                                                                         *)
(* Encoding.  Option<T> and Configure<T> are sequences of length at most   *)
(* one: <<>> is None / unset, <<v>> is Some(v) / set.  A HashMap is a      *)
(* function on its key set, a HashSet a set, a Vec a sequence.  File names *)
(* and extension strings are sequences of one-character strings so that    *)
(* split('.') and the re-joining of segments are computed, not assumed.    *)
(***************************************************************************)
EXTENDS Integers, Sequences, FiniteSets, TLC

VARIABLES
    pc,               \* position in main / command_manage / decompress_to_dir
    arg_cfg,          \* main: Option<Cfg> loaded from --config-file
    chewwy_root_cfg,  \* main: Option<Cfg> loaded from <root>/.chewwy/cfg.toml
    cfg,              \* main: the merged Cfg
    formats,          \* FileArchiver.formats
    file,             \* decompress_to_dir: last path component of `file`
    dir,              \* decompress_to_dir: the destination directory
    extension_vec,    \* find_format: Option<Vec<&str>>
    i,                \* find_format: loop offset
    extension_format, \* ExtensionFormatCache.extension_format
    found_format,     \* find_format: Option<&String>
    k,                \* decompress_to_dir: 1-based position in the command list
    spawned,          \* decompress_to_dir: launches attempted so far, in order
    child,            \* decompress_to_dir: Option<(command, command_cfg)>
    result,           \* decompress_to_dir: Option<Result<(), DecompressError>>
    waited,           \* decompress_to_dir: Option<what child.wait() returned>
    config_file,      \* main: args.config_file
    subcommand,       \* main: args.command
    chewwy_root,      \* main: Option<PathBuf> found by search_chewwy_root
    loads,            \* main: the load_cfg calls made so far, with their outcomes
    unnest_result,    \* command_manage: Option<what unnest_dir returned>
    compressed_file_at \* where the compressed file is: "original" or "archive"

vars == <<pc, arg_cfg, chewwy_root_cfg, cfg, formats, file, dir, extension_vec, i,
          extension_format, found_format, k, spawned, child, result, waited,
          config_file, subcommand, chewwy_root, loads, unnest_result,
          compressed_file_at>>

run_vars == <<config_file, subcommand, chewwy_root, loads, unnest_result,
              compressed_file_at>>

archiver_vars == <<formats, file, dir, extension_vec, i, extension_format,
                   found_format, k, spawned, child, result>>

(***************************************************************************)
(* Option / Configure                                                      *)
(***************************************************************************)
None == <<>>

Some(v) == <<v>>

Configure(T) == {None} \cup {Some(v) : v \in T}

is_some(x) == x # None

\* Configure::c -- only meaningful when the value is set; every use below
\* is guarded by is_some, the unset case being the unwrap() panic.
c(x) == x[1]

(***************************************************************************)
(* cfg.rs: the merge combinators                                           *)
(***************************************************************************)
merge_value_overwrite(self, other) ==
    IF other # None THEN other ELSE self

merge_value(self, other) ==
    IF self = None /\ other # None THEN other ELSE self

\* StructMerge::struct_merge, dispatched on the implementing type T.
RECURSIVE struct_merge(_, _, _)

merge_struct_no_copy(self, other, T) ==
    IF self # None /\ other # None
    THEN Some(struct_merge(T, c(self), c(other)))
    ELSE self

merge_struct(self, other, T) ==
    IF self = None /\ other # None THEN other
    ELSE IF self # None /\ other # None
         THEN Some(struct_merge(T, c(self), c(other)))
         ELSE self

Directories_struct_merge(self, other) ==
    [search  |-> merge_value(self.search, other.search),
     output  |-> merge_value(self.output, other.output),
     archive |-> merge_value(self.archive, other.archive)]

ManageCommandCfg_struct_merge(self, other) ==
    [smart_decompress_directory |->
         merge_value(self.smart_decompress_directory,
                     other.smart_decompress_directory),
     search_file |-> merge_value(self.search_file, other.search_file),
     output_file_action |->
         merge_value(self.output_file_action, other.output_file_action),
     compressed_file_action |->
         merge_value(self.compressed_file_action,
                     other.compressed_file_action),
     directories |->
         merge_struct(self.directories, other.directories, "Directories")]

CommandsCfg_struct_merge(self, other) ==
    [manage |-> merge_struct(self.manage, other.manage, "ManageCommandCfg")]

Format_struct_merge(self, other) ==
    [extensions |-> merge_value(self.extensions, other.extensions),
     decompress |-> merge_value(self.decompress, other.decompress)]

merge_struct_with_identical_key(self, other) ==
    IF self = None /\ other # None THEN other
    ELSE IF self # None /\ other # None
         THEN Some([key \in DOMAIN c(self) |->
                       IF key \in DOMAIN c(other)
                       THEN struct_merge("Format", c(self)[key], c(other)[key])
                       ELSE c(self)[key]])
         ELSE self

Cfg_struct_merge(self, other) ==
    [formats  |-> merge_struct_with_identical_key(self.formats, other.formats),
     commands |-> merge_struct(self.commands, other.commands, "CommandsCfg")]

struct_merge(T, self, other) ==
    CASE T = "Directories"      -> Directories_struct_merge(self, other)
      [] T = "ManageCommandCfg" -> ManageCommandCfg_struct_merge(self, other)
      [] T = "CommandsCfg"      -> CommandsCfg_struct_merge(self, other)
      [] T = "Format"           -> Format_struct_merge(self, other)
      [] T = "Cfg"              -> Cfg_struct_merge(self, other)

(***************************************************************************)
(* Strings.  A string is a sequence of one-character strings.              *)
(***************************************************************************)
abc == <<"a", "b", "c">>

def == <<"d", "e", "f">>

abc_def == <<"a", "b", "c", ".", "d", "e", "f">>

zip == <<"z", "i", "p">>

(***************************************************************************)
(* cfg.rs: Command, and the commands the configurations below draw from    *)
(***************************************************************************)
\* An argument template is a sequence of pieces, each a string; the pieces
\* FILE and DIR are the placeholders "{FILE}" and "{DIR}" that str::replace
\* substitutes, taken as indivisible.
FILE == <<"{FILE}">>

DIR == <<"{DIR}">>

CommandPool ==
    << [path |-> "7z",     args |-> << <<"x">>, FILE, <<"-", "o">> \o DIR >>],
       [path |-> "unzip",  args |-> << FILE, <<"-", "d">>, DIR >>],
       [path |-> "tar",    args |-> << <<"-", "x", "f">>, FILE, <<"-", "C">>, DIR >>],
       [path |-> "bsdtar", args |-> << <<"-", "x", "f">>, FILE >>] >>

RECURSIVE replace(_, _, _)
\* str::replace(from, to), `from` being a one-piece placeholder
replace(arg, from, to) ==
    IF arg = <<>> THEN <<>>
    ELSE IF <<Head(arg)>> = from THEN to \o replace(Tail(arg), from, to)
    ELSE <<Head(arg)>> \o replace(Tail(arg), from, to)

decompress_command_format(self, file_str, dir_str) ==
    [program |-> self.path,
     args    |-> [j \in 1..Len(self.args) |->
                     replace(replace(self.args[j], FILE, file_str),
                             DIR, dir_str)]]

(***************************************************************************)
(* Cfg::default(): the bundled cfg.toml.  The document itself is not part  *)
(* of the sources; the specification guarantees that it populates every    *)
(* field, which is all the model relies on.                                *)
(***************************************************************************)
DefaultCfg ==
    [formats  |-> Some("zip" :> [extensions |-> Some({zip}),
                                 decompress |-> Some(<<CommandPool[1],
                                                       CommandPool[2]>>)]),
     commands |-> Some([manage |-> Some(
         [smart_decompress_directory |-> Some(TRUE),
          search_file                |-> Some(TRUE),
          output_file_action         |-> Some("DecompressToOutputDir"),
          compressed_file_action     |-> Some("MoveToArchiveDir"),
          directories |-> Some([search  |-> Some(Some(<<"default", "search">>)),
                                output  |-> Some(Some(<<"default", "output">>)),
                                archive |-> Some(Some(<<"default", "archive">>))])])])]

(***************************************************************************)
(* Configuration layers a cfg.toml can deserialize to.  `tag` names the    *)
(* document so that values of different layers can be told apart.  A path  *)
(* that is present in a TOML document always deserializes to Some(path).   *)
(***************************************************************************)
DirectoriesLayers(tag) ==
    [search  : Configure({Some(<<tag, "search">>)}),
     output  : Configure({Some(<<tag, "output">>)}),
     archive : Configure({Some(<<tag, "archive">>)})]

ManageLayers(tag) ==
    [smart_decompress_directory : Configure(BOOLEAN),
     search_file                : Configure(BOOLEAN),
     output_file_action         : Configure({"DecompressToOutputDir"}),
     compressed_file_action     : Configure({"MoveToArchiveDir", "DoNothing"}),
     directories                : Configure(DirectoriesLayers(tag))]

CommandsLayers(tag) == Configure([manage : Configure(ManageLayers(tag))])

\* Layers that vary commands.manage exhaustively and leave formats unset.
CommandLayers(tag) == [formats : {None}, commands : CommandsLayers(tag)]

(***************************************************************************)
(* bin/chewer.rs: main, the three-layer merge                              *)
(***************************************************************************)
MergeLayers(root, arg) ==
    IF root = None /\ arg = None THEN DefaultCfg
    ELSE IF root = None THEN Cfg_struct_merge(c(arg), DefaultCfg)
    ELSE IF arg = None THEN Cfg_struct_merge(c(root), DefaultCfg)
    ELSE Cfg_struct_merge(Cfg_struct_merge(c(arg), c(root)), DefaultCfg)

\* main, lines 95-111.  arg_cfg and chewwy_root_cfg are moved into the match;
\* they are kept here, unchanged, as the record of what was merged.
MainMerge ==
    /\ pc = "main"
    /\ cfg' = MergeLayers(chewwy_root_cfg, arg_cfg)
    /\ pc' = "merged"
    /\ UNCHANGED <<arg_cfg, chewwy_root_cfg>>
    /\ UNCHANGED archiver_vars
    /\ UNCHANGED <<waited>>
    /\ UNCHANGED run_vars

ArchiverIdle ==
    /\ formats = None
    /\ file = None
    /\ dir = None
    /\ extension_vec = None
    /\ i = 0
    /\ extension_format = None
    /\ found_format = None
    /\ k = 0
    /\ spawned = <<>>
    /\ child = None
    /\ result = None
    /\ waited = None

\* args.command: no subcommand, or `manage`
Commands == {None, Some("manage")}

\* command_manage has not run: the compressed file is where it was.
ManageIdle ==
    /\ unnest_result = None
    /\ compressed_file_at = "original"

\* main at line 95, having loaded arg and root (lines 77-94): the arguments,
\* the project root and the load_cfg calls that lead there.
LoadedAs(arg, root) ==
    /\ config_file = IF arg = None THEN None ELSE Some("explicit.toml")
    /\ chewwy_root \in IF root = None THEN {None, Some("root")} ELSE {Some("root")}
    /\ loads = (IF arg = None THEN <<>>
                ELSE <<[layer |-> "explicit", outcome |-> "Ok"]>>)
               \o (IF chewwy_root = None THEN <<>>
                   ELSE <<[layer |-> "root",
                           outcome |-> IF root = None THEN "NotFound" ELSE "Ok"]>>)

InitCmd ==
    /\ pc = "main"
    /\ arg_cfg \in {None} \cup {Some(l) : l \in CommandLayers("explicit")}
    /\ chewwy_root_cfg \in {None} \cup {Some(l) : l \in CommandLayers("root")}
    /\ cfg = None
    /\ ArchiverIdle
    /\ ManageIdle
    /\ LoadedAs(arg_cfg, chewwy_root_cfg)
    /\ subcommand = Some("manage")

NextCmd == MainMerge

SpecCmd == InitCmd /\ [][NextCmd]_vars

(***************************************************************************)
(* file_archiver.rs: find_format                                           *)
(***************************************************************************)
RECURSIVE split(_, _)
\* str::split(ch): the pieces between the occurrences of ch, at least one
split(s, ch) ==
    IF \A n \in 1..Len(s) : s[n] # ch THEN <<s>>
    ELSE LET at == CHOOSE n \in 1..Len(s) :
                       s[n] = ch /\ \A m \in 1..(n - 1) : s[m] # ch
         IN <<SubSeq(s, 1, at - 1)>> \o split(SubSeq(s, at + 1, Len(s)), ch)

\* file_extension_vec: None for a path without a last component, else the
\* dot-separated pieces of the last component after the first (skip(1)).
\* Mutation of file_extension_vec: the skip(1) is forgotten.
file_extension_vec_no_skip(f) ==
    IF f = <<>> THEN None ELSE Some(split(f, "."))

file_extension_vec(f) ==
    IF f = <<>> THEN None ELSE Some(Tail(split(f, ".")))

RECURSIVE push_parts(_, _)
\* lines 163-166: for each remaining part push '.' and the part
push_parts(str, parts) ==
    IF parts = <<>> THEN str
    ELSE push_parts(str \o <<".">> \o Head(parts), Tail(parts))

\* Mutation of extension_at: offsets count from the shortest suffix.
extension_at_shortest_first(vec, at) ==
    LET rest == SubSeq(vec, Len(vec) - at, Len(vec))
    IN push_parts(Head(rest), Tail(rest))

\* lines 159-168: the candidate extension at (0-based) offset `at`
extension_at(vec, at) ==
    LET rest == SubSeq(vec, at + 1, Len(vec))
    IN push_parts(Head(rest), Tail(rest))

\* The orders in which iterating a HashMap with key set S can yield its keys.
IterationOrders(S) ==
    {o \in [1..Cardinality(S) -> S] :
        \A m, n \in 1..Cardinality(S) : m # n => o[m] # o[n]}

\* ExtensionFormatCache::new, for tables whose formats all set `extensions`:
\* the (extension, format_name) pairs are collected in iteration order into
\* a map, a later pair replacing an earlier one with the same extension.
ExtensionFormatCache_new(table, order) ==
    LET claimed == UNION {c(table[n].extensions) : n \in DOMAIN table}
        last(e) == CHOOSE m \in 1..Len(order) :
                       /\ e \in c(table[order[m]].extensions)
                       /\ \A n \in (m + 1)..Len(order) :
                              e \notin c(table[order[n]].extensions)
    IN [e \in claimed |-> order[last(e)]]

\* decompress_to_dir line 65 -> find_format lines 154-155
FileExtensionVec ==
    /\ pc = "decompress_to_dir"
    /\ extension_vec' = file_extension_vec(file)
    /\ IF extension_vec' = None
       THEN /\ pc' = "format_resolved"
            /\ found_format' = None
       ELSE /\ pc' = "cache"
            /\ UNCHANGED found_format
    /\ UNCHANGED <<arg_cfg, chewwy_root_cfg, cfg, formats, file, dir, i,
                   extension_format, k, spawned, child, result>>
    /\ UNCHANGED <<waited>>
    /\ UNCHANGED run_vars

\* find_format line 156
ExtensionFormatCacheNew ==
    /\ pc = "cache"
    /\ \A n \in DOMAIN formats : is_some(formats[n].extensions)
    /\ \E order \in IterationOrders(DOMAIN formats) :
           extension_format' = ExtensionFormatCache_new(formats, order)
    /\ i' = 0
    /\ pc' = "loop"
    /\ UNCHANGED <<arg_cfg, chewwy_root_cfg, cfg, formats, file, dir,
                   extension_vec, found_format, k, spawned, child, result>>
    /\ UNCHANGED <<waited>>
    /\ UNCHANGED run_vars

\* find_format line 156 -> ExtensionFormatCache::new line 188: c() on a
\* format whose extensions are unset is Option::unwrap on None
ExtensionFormatCachePanic ==
    /\ pc = "cache"
    /\ \E n \in DOMAIN formats : ~is_some(formats[n].extensions)
    /\ pc' = "panic"
    /\ UNCHANGED <<arg_cfg, chewwy_root_cfg, cfg>>
    /\ UNCHANGED archiver_vars
    /\ UNCHANGED <<waited>>
    /\ UNCHANGED run_vars

\* find_format lines 158-175, one iteration of the loop (or its end)
FindFormatLoop ==
    /\ pc = "loop"
    /\ IF i < Len(c(extension_vec))
       THEN LET extension == extension_at(c(extension_vec), i)
            IN IF extension \in DOMAIN extension_format
               THEN /\ found_format' = Some(extension_format[extension])
                    /\ pc' = "format_resolved"
                    /\ UNCHANGED i
               ELSE /\ i' = i + 1
                    /\ UNCHANGED <<found_format, pc>>
       ELSE /\ found_format' = None
            /\ pc' = "format_resolved"
            /\ UNCHANGED i
    /\ UNCHANGED <<arg_cfg, chewwy_root_cfg, cfg, formats, file, dir,
                   extension_vec, extension_format, k, spawned, child, result>>
    /\ UNCHANGED <<waited>>
    /\ UNCHANGED run_vars

(***************************************************************************)
(* file_archiver.rs: decompress_to_dir                                     *)
(***************************************************************************)
SpawnErrorKinds == {"NotFound", "PermissionDenied"}

WaitErrorKinds == {"Interrupted"}

\* ExitStatus: an exit code (i32), or termination by a signal (no code)
ExitCodes == {0, 1, 2}

ExitStatuses == {[code |-> Some(n)] : n \in ExitCodes} \cup {[code |-> None]}

\* Mutation of no_format_error: dir_str is carried in place of file_str.
no_format_error_carries_dir == [err |-> "NoFormatAvailable", file |-> dir]

\* lines 66-68
no_format_error == [err |-> "NoFormatAvailable", file |-> file]

\* lines 65-69
NoFormatAvailable ==
    /\ pc = "format_resolved"
    /\ found_format = None
    /\ result' = Some(no_format_error)
    /\ pc' = "done"
    /\ UNCHANGED <<arg_cfg, chewwy_root_cfg, cfg, formats, file, dir,
                   extension_vec, i, extension_format, found_format, k,
                   spawned, child>>
    /\ UNCHANGED <<waited>>
    /\ UNCHANGED run_vars

\* lines 71-72
DecompressCommands ==
    /\ pc = "format_resolved"
    /\ found_format # None
    /\ is_some(formats[c(found_format)].decompress)
    /\ k' = 1
    /\ pc' = "spawn"
    /\ UNCHANGED <<arg_cfg, chewwy_root_cfg, cfg, formats, file, dir,
                   extension_vec, i, extension_format, found_format,
                   spawned, child, result>>
    /\ UNCHANGED <<waited>>
    /\ UNCHANGED run_vars

\* line 71: c() on an unset decompress is Option::unwrap on None
DecompressCommandsPanic ==
    /\ pc = "format_resolved"
    /\ found_format # None
    /\ ~is_some(formats[c(found_format)].decompress)
    /\ pc' = "panic"
    /\ UNCHANGED <<arg_cfg, chewwy_root_cfg, cfg>>
    /\ UNCHANGED archiver_vars
    /\ UNCHANGED <<waited>>
    /\ UNCHANGED run_vars

decompress_commands == c(formats[c(found_format)].decompress)

\* What the loop does with the outcome of one command.spawn() (lines 76-92):
\* "child" keeps the child and leaves the loop, "continue" goes on to the
\* next command, "return" ends the call with RunCommandError.
spawn_any_error_continues(outcome) ==
    IF outcome = "Ok" THEN "child" ELSE "continue"

\* Mutation of on_spawn: the loop is not left once a child was spawned.
spawn_goes_on_after_child(outcome) ==
    IF outcome \in {"Ok", "NotFound"} THEN "continue" ELSE "return"

on_spawn(outcome) ==
    IF outcome = "Ok" THEN "child"
    ELSE IF outcome = "NotFound" THEN "continue"
    ELSE "return"

\* lines 73-93, one iteration of the loop
Spawn ==
    /\ pc = "spawn"
    /\ k <= Len(decompress_commands)
    /\ LET decompress_command == decompress_commands[k]
           command == decompress_command_format(decompress_command, file, dir)
       IN \E outcome \in {"Ok"} \cup SpawnErrorKinds :
            /\ spawned' = Append(spawned, [command |-> decompress_command,
                                           outcome |-> outcome])
            /\ CASE on_spawn(outcome) = "child" ->
                      /\ child' = Some([command     |-> command,
                                        command_cfg |-> decompress_command])
                      /\ pc' = "wait"
                      /\ UNCHANGED <<k, result>>
                 [] on_spawn(outcome) = "continue" ->
                      /\ k' = k + 1
                      /\ UNCHANGED <<child, pc, result>>
                 [] on_spawn(outcome) = "return" ->
                      /\ result' = Some([err     |-> "RunCommandError",
                                         command_str |-> command,
                                         command |-> decompress_command,
                                         io      |-> outcome,
                                         format  |-> c(found_format)])
                      /\ pc' = "done"
                      /\ UNCHANGED <<child, k>>
    /\ UNCHANGED <<arg_cfg, chewwy_root_cfg, cfg, formats, file, dir,
                   extension_vec, i, extension_format, found_format>>
    /\ UNCHANGED <<waited>>
    /\ UNCHANGED run_vars

\* The error returned when the loop ended without a child (lines 95-100).
no_child_error_wrong_variant ==
    [err |-> "NoFormatAvailable", file |-> file]

no_child_error ==
    [err |-> "NoCommandAvailable", file |-> file,
     found_format_name |-> c(found_format)]

\* lines 95-100
NoCommandAvailable ==
    /\ pc = "spawn"
    /\ k > Len(decompress_commands)
    /\ result' = Some(no_child_error)
    /\ pc' = "done"
    /\ UNCHANGED <<arg_cfg, chewwy_root_cfg, cfg, formats, file, dir,
                   extension_vec, i, extension_format, found_format, k,
                   spawned, child>>
    /\ UNCHANGED <<waited>>
    /\ UNCHANGED run_vars

\* What child.wait() can return: an exit status, or an io::Error
WaitOutcomes ==
    {[status |-> o] : o \in ExitStatuses} \cup {[io |-> e] : e \in WaitErrorKinds}

\* Mutation of wait_result: the exit status is not looked at.
wait_result_ignores_status(outcome) ==
    IF "status" \in DOMAIN outcome
    THEN [ok |-> TRUE]
    ELSE [err |-> "ChildWaitReturnError",
          command_str |-> c(child).command,
          command |-> c(child).command_cfg,
          format |-> c(found_format),
          io |-> outcome.io]

\* lines 101-131: the Result that decompress_to_dir returns for what
\* child.wait() returned
wait_result(outcome) ==
    IF "status" \in DOMAIN outcome
    THEN IF outcome.status.code = Some(0) THEN [ok |-> TRUE]
         ELSE IF outcome.status.code # None
         THEN [err |-> "ChildReturnErrorCode",
               command_str |-> c(child).command,
               command |-> c(child).command_cfg,
               code |-> c(outcome.status.code),
               format |-> c(found_format)]
         ELSE [err |-> "ChildError",
               command_str |-> c(child).command,
               command |-> c(child).command_cfg,
               format |-> c(found_format)]
    ELSE [err |-> "ChildWaitReturnError",
          command_str |-> c(child).command,
          command |-> c(child).command_cfg,
          format |-> c(found_format),
          io |-> outcome.io]

\* lines 101-131
Wait ==
    /\ pc = "wait"
    /\ \E outcome \in WaitOutcomes :
          /\ waited' = Some(outcome)
          /\ result' = Some(wait_result(outcome))
    /\ pc' = "done"
    /\ UNCHANGED <<arg_cfg, chewwy_root_cfg, cfg, formats, file, dir,
                   extension_vec, i, extension_format, found_format, k,
                   spawned, child>>
    /\ UNCHANGED run_vars

NextArchiver ==
    \/ FileExtensionVec
    \/ ExtensionFormatCacheNew
    \/ ExtensionFormatCachePanic
    \/ FindFormatLoop
    \/ NoFormatAvailable
    \/ DecompressCommands
    \/ DecompressCommandsPanic
    \/ Spawn
    \/ NoCommandAvailable
    \/ Wait

(***************************************************************************)
(* Inputs of FileArchiver::new / decompress_to_dir                         *)
(***************************************************************************)
\* Longest decompress command list of a format
MaxCmds == 3

\* Format names, in the lexicographic order of String
FormatNameOrder == <<"first", "mine", "second", "third", "zip">>

Rank(name) == CHOOSE n \in 1..Len(FormatNameOrder) : FormatNameOrder[n] = name

ExtensionPool == {abc, abc_def, def}

\* Last path components: no dot, the names of the unit test (a_file
\* shortened to f, hiya to h), a dot-file, empty segments, unknown
\* extensions, and the empty path.
Files ==
    { <<"f">>,
      abc,
      <<"f", ".">> \o abc,
      <<"f", ".", "h", ".">> \o abc,
      <<"f", ".">> \o def,
      <<"f", ".">> \o abc_def,
      <<"f", ".">> \o def \o <<".">> \o abc,
      <<"f", ".">> \o abc \o <<".", "h">>,
      <<"f", ".">> \o zip,
      <<".">> \o abc,
      <<"f", ".", ".">> \o def,
      <<"f", ".">>,
      <<>> }

Dirs == { <<"o", "u", "t">> }

ArchiverNames == {"first", "second", "third"}

\* The command list of a format: `len` commands of the pool, starting at a
\* place that depends on the format so that formats differ in their lists.
CommandList(name, len) ==
    [j \in 1..len |-> CommandPool[((Rank(name) + j - 2) % Len(CommandPool)) + 1]]

ArchiverTables ==
    UNION { UNION { { [n \in S |->
                         [extensions |-> e[n],
                          decompress |-> IF len = None THEN None
                                         ELSE Some(CommandList(n, c(len)))]]
                      : e \in [S -> Configure(SUBSET ExtensionPool)] }
                    : len \in Configure(0..MaxCmds) }
            : S \in SUBSET ArchiverNames }

InitArchiver ==
    /\ pc = "decompress_to_dir"
    /\ arg_cfg = None
    /\ chewwy_root_cfg = None
    /\ cfg = None
    /\ formats \in ArchiverTables
    /\ file \in Files
    /\ dir \in Dirs
    /\ extension_vec = None
    /\ i = 0
    /\ extension_format = None
    /\ found_format = None
    /\ k = 0
    /\ spawned = <<>>
    /\ child = None
    /\ result = None
    /\ waited = None
    /\ config_file = None
    /\ subcommand = None
    /\ chewwy_root = None
    /\ loads = <<>>
    /\ ManageIdle

SpecArchiver == InitArchiver /\ [][NextArchiver]_vars

(***************************************************************************)
(* bin/chewer.rs: the whole run, from the loaded layers to the outcome of  *)
(* decompress_to_dir                                                       *)
(***************************************************************************)
LayerExtensions(tag) == IF tag = "explicit" THEN {abc} ELSE {def, abc_def}

LayerDecompress(tag) ==
    IF tag = "explicit" THEN <<CommandPool[3]>>
    ELSE <<CommandPool[4], CommandPool[3]>>

\* Format tables of a layer: any of the default's format "zip" and the
\* custom format "mine", each setting any of its two fields.
FormatsLayers(tag) ==
    Configure(UNION { [S -> [extensions : Configure({LayerExtensions(tag)}),
                             decompress : Configure({LayerDecompress(tag)})]]
                      : S \in SUBSET {"zip", "mine"} })

\* A few shapes of the commands table: unset, manage unset, an empty manage
\* table, and a manage table that sets some fields and some directories.
FewCommandsLayers(tag) ==
    { None,
      Some([manage |-> None]),
      Some([manage |-> Some([smart_decompress_directory |-> None,
                             search_file                |-> None,
                             output_file_action         |-> None,
                             compressed_file_action     |-> None,
                             directories                |-> None])]),
      Some([manage |-> Some([smart_decompress_directory |-> Some(FALSE),
                             search_file                |-> None,
                             output_file_action         |-> None,
                             compressed_file_action     |-> Some("DoNothing"),
                             directories |->
                                 Some([search  |-> None,
                                       output  |-> Some(Some(<<tag, "output">>)),
                                       archive |-> None])])]) }

FormatLayers(tag) ==
    [formats : FormatsLayers(tag), commands : FewCommandsLayers(tag)]

\* Every c() that command_manage itself applies to the merged configuration:
\* lines 142-144 (with Directories::to_absolute, cfg.rs 229-243), 148, 235,
\* 256 and 271.
ManageDerefsSet(merged) ==
    /\ is_some(merged.formats)
    /\ is_some(merged.commands)
    /\ is_some(c(merged.commands).manage)
    /\ LET manage_cfg == c(c(merged.commands).manage)
       IN /\ is_some(manage_cfg.directories)
          /\ is_some(c(manage_cfg.directories).search)
          /\ is_some(c(manage_cfg.directories).output)
          /\ is_some(c(manage_cfg.directories).archive)
          /\ is_some(manage_cfg.search_file)
          /\ is_some(manage_cfg.output_file_action)
          /\ is_some(manage_cfg.smart_decompress_directory)
          /\ is_some(manage_cfg.compressed_file_action)

\* The c() of lines 142-144: commands, manage, directories, the three
\* directory entries inside Directories::to_absolute (cfg.rs 229-243), and
\* formats.
EntryDerefsSet(merged) ==
    /\ is_some(merged.commands)
    /\ is_some(c(merged.commands).manage)
    /\ is_some(c(c(merged.commands).manage).directories)
    /\ \A d \in {"search", "output", "archive"} :
           is_some(c(c(c(merged.commands).manage).directories)[d])
    /\ is_some(merged.formats)

\* What lines 145-229 end with: the file to manage, given on the command
\* line or picked from the search directory, or one of their error returns.
FileOutcomes ==
    {[given |-> g, err |-> "NoFile"] : g \in BOOLEAN}
        \cup {[given |-> g, ok |-> f] : g \in BOOLEAN, f \in Files}

\* command_manage from its entry to its call of decompress_to_dir (lines
\* 137-244), as the position it reaches: an Err return is "manage_failed",
\* an unwrap of an unset field is "panic".
command_manage_entry(merged, root, picked) ==
    IF root = None THEN "manage_failed"
    ELSE IF ~EntryDerefsSet(merged) THEN "panic"
    ELSE LET manage_cfg == c(c(merged.commands).manage)
         IN IF ~picked.given /\ manage_cfg.search_file = None THEN "panic"
            ELSE IF "err" \in DOMAIN picked THEN "manage_failed"
            ELSE IF manage_cfg.output_file_action = None THEN "panic"
            ELSE IF c(c(manage_cfg.directories).output) = None
                 THEN "manage_failed"
                 ELSE "decompress_to_dir"

\* command_manage up to its call of decompress_to_dir (lines 137-251): the
\* merged configuration is dereferenced, the file is chosen, the archiver is
\* built on the merged format table.  By now main's match has consumed the
\* two layers.
CommandManage ==
    /\ pc = "merged"
    /\ subcommand # None
    /\ arg_cfg' = None
    /\ chewwy_root_cfg' = None
    /\ \E picked \in FileOutcomes :
          /\ pc' = command_manage_entry(cfg, chewwy_root, picked)
          /\ IF pc' = "decompress_to_dir"
             THEN /\ formats' = c(cfg.formats)
                  /\ file' = picked.ok
                  /\ dir' = c(c(c(c(c(cfg.commands).manage).directories).output))
             ELSE UNCHANGED <<formats, file, dir>>
    /\ UNCHANGED <<cfg, extension_vec, i, extension_format, found_format, k,
                   spawned, child, result, waited>>
    /\ UNCHANGED run_vars

\* Mutation of after_decompress: the Result of decompress_to_dir is dropped.
after_decompress_drops_result(res, smart) ==
    IF smart = None THEN "panic"
    ELSE IF c(smart) THEN "unnest" ELSE "compressed_file_action"

\* lines 245-256: where command_manage goes with the Result of
\* decompress_to_dir, `smart` being smart_decompress_directory
after_decompress(res, smart) ==
    IF "err" \in DOMAIN res THEN "manage_failed"
    ELSE IF smart = None THEN "panic"
    ELSE IF c(smart) THEN "unnest" ELSE "compressed_file_action"

\* lines 245-256
DecompressReturned ==
    /\ pc = "done"
    /\ pc' = after_decompress(c(result),
                              c(c(cfg.commands).manage).smart_decompress_directory)
    /\ UNCHANGED <<arg_cfg, chewwy_root_cfg, cfg, waited>>
    /\ UNCHANGED archiver_vars
    /\ UNCHANGED run_vars

\* What unnest_dir returns (utils.rs 13-49)
UnnestOutcomes == {"Ok", "Empty", "NotNested", "Io"}

\* lines 258-267: what command_manage makes of unnest_dir's return
after_unnest(outcome) ==
    IF outcome = "Io" THEN "manage_failed" ELSE "compressed_file_action"

\* lines 257-267
Unnest ==
    /\ pc = "unnest"
    /\ \E outcome \in UnnestOutcomes :
          /\ unnest_result' = Some(outcome)
          /\ pc' = after_unnest(outcome)
    /\ UNCHANGED <<arg_cfg, chewwy_root_cfg, cfg, waited, config_file,
                   subcommand, chewwy_root, loads, compressed_file_at>>
    /\ UNCHANGED archiver_vars

\* lines 271-288; fs::rename moves the file or fails
CompressedFileAction ==
    /\ pc = "compressed_file_action"
    /\ LET manage_cfg == c(c(cfg.commands).manage)
       IN IF manage_cfg.compressed_file_action = None
          THEN /\ pc' = "panic"
               /\ UNCHANGED compressed_file_at
          ELSE IF c(manage_cfg.compressed_file_action) = "DoNothing"
          THEN /\ pc' = "manage_ok"
               /\ UNCHANGED compressed_file_at
          ELSE IF c(c(manage_cfg.directories).archive) = None
          THEN /\ pc' = "manage_failed"
               /\ UNCHANGED compressed_file_at
          ELSE \E renamed \in BOOLEAN :
                  IF renamed
                  THEN /\ compressed_file_at' = "archive"
                       /\ pc' = "manage_ok"
                  ELSE /\ pc' = "manage_failed"
                       /\ UNCHANGED compressed_file_at
    /\ UNCHANGED <<arg_cfg, chewwy_root_cfg, cfg, waited, config_file,
                   subcommand, chewwy_root, loads, unnest_result>>
    /\ UNCHANGED archiver_vars

InitMain ==
    /\ pc = "main"
    /\ arg_cfg \in {None} \cup {Some(l) : l \in FormatLayers("explicit")}
    /\ chewwy_root_cfg \in {None} \cup {Some(l) : l \in FormatLayers("root")}
    /\ cfg = None
    /\ ArchiverIdle
    /\ ManageIdle
    /\ LoadedAs(arg_cfg, chewwy_root_cfg)
    /\ subcommand \in Commands

\* main lines 120-122: no subcommand was given, todo!()
MainTodo ==
    /\ pc = "merged"
    /\ subcommand = None
    /\ pc' = "todo"
    /\ arg_cfg' = None
    /\ chewwy_root_cfg' = None
    /\ UNCHANGED <<cfg, waited>>
    /\ UNCHANGED archiver_vars
    /\ UNCHANGED run_vars

NextManage ==
    \/ CommandManage
    \/ NextArchiver
    \/ DecompressReturned
    \/ Unnest
    \/ CompressedFileAction

Next ==
    \/ MainMerge
    \/ MainTodo
    \/ NextManage

Spec == InitMain /\ [][Next]_vars

(***************************************************************************)
(* command_manage on its own, called with any Cfg                          *)
(***************************************************************************)
\* Format tables for command_manage: the default's, and the default's
\* format with either of its fields unset.
ManageFormats ==
    { DefaultCfg.formats,
      Some("zip" :> [extensions |-> Some({zip}), decompress |-> None]),
      Some("zip" :> [extensions |-> None,
                     decompress |-> Some(<<CommandPool[1]>>)]) }

\* A directory entry that is set: to no path, or to a path
DirectoryEntries(name) == {Some(None), Some(Some(<<"cfg", name>>))}

ManageCfgs ==
    [formats  : ManageFormats,
     commands : {Some([manage |-> Some(m)]) : m \in
         [smart_decompress_directory : Configure(BOOLEAN),
          search_file                : {Some(TRUE)},
          output_file_action         : {Some("DecompressToOutputDir")},
          compressed_file_action     : Configure({"MoveToArchiveDir",
                                                  "DoNothing"}),
          directories : {Some(d) : d \in [search  : {Some(None)},
                                          output  : DirectoryEntries("output"),
                                          archive : DirectoryEntries("archive")]}]}]

InitManage ==
    /\ pc = "merged"
    /\ cfg \in ManageCfgs
    /\ chewwy_root \in {None, Some("root")}
    /\ subcommand = Some("manage")
    /\ arg_cfg = None
    /\ chewwy_root_cfg = None
    /\ config_file = None
    /\ loads = <<>>
    /\ ArchiverIdle
    /\ ManageIdle

SpecManage == InitManage /\ [][NextManage]_vars

(***************************************************************************)
(* bin/chewer.rs: main from its start, lines 77-94                         *)
(***************************************************************************)
ReadErrorKinds == {"NotFound", "PermissionDenied"}

\* What fs::read_to_string can return for a layer's file: an io::Error, or
\* the text of a document that is not a Cfg (toml |-> None) or is one.
ReadOutcomes(tag) ==
    {[io |-> kind] : kind \in ReadErrorKinds}
        \cup {[toml |-> None]}
        \cup {[toml |-> Some(l)] : l \in FormatLayers(tag)}

\* load_cfg, lines 70-74: "Ok" with the Cfg, or the CfgError: Io with the
\* error's kind, or Invalid
load_cfg(read) ==
    IF "io" \in DOMAIN read THEN [outcome |-> read.io, cfg |-> None]
    ELSE IF read.toml = None THEN [outcome |-> "Invalid", cfg |-> None]
    ELSE [outcome |-> "Ok", cfg |-> read.toml]

\* Mutation of root_layer_absent_on: every failed load is taken as absence.
root_layer_absent_on_any_error(outcome) == outcome # "Ok"

\* line 90: the load error on which the root layer counts as absent
root_layer_absent_on(outcome) == outcome = "NotFound"

\* What lines 79-81 can produce: an io::Error of current_dir or of
\* search_chewwy_root (lines 40-64), or the root found, if any.
SearchOutcomes == {[err |-> "Io"]} \cup {[ok |-> r] : r \in {None, Some("root")}}

\* lines 79-81: current_dir and search_chewwy_root; either may fail
SearchChewwyRoot ==
    /\ pc = "start"
    /\ \E found \in SearchOutcomes :
          IF "err" \in DOMAIN found
          THEN /\ pc' = "abort"
               /\ UNCHANGED chewwy_root
          ELSE /\ pc' = "load_arg"
               /\ chewwy_root' = found.ok
    /\ UNCHANGED <<arg_cfg, chewwy_root_cfg, cfg, waited, config_file, subcommand,
                   loads, unnest_result, compressed_file_at>>
    /\ UNCHANGED archiver_vars

\* lines 83-86
LoadArgCfg ==
    /\ pc = "load_arg"
    /\ IF config_file = None
       THEN /\ arg_cfg' = None
            /\ pc' = "load_root"
            /\ UNCHANGED loads
       ELSE \E read \in ReadOutcomes("explicit") :
              LET loaded == load_cfg(read)
              IN /\ loads' = Append(loads, [layer   |-> "explicit",
                                            outcome |-> loaded.outcome])
                 /\ arg_cfg' = loaded.cfg
                 /\ pc' = IF loaded.outcome = "Ok" THEN "load_root" ELSE "abort"
    /\ UNCHANGED <<chewwy_root_cfg, cfg, waited, config_file, subcommand,
                   chewwy_root, unnest_result, compressed_file_at>>
    /\ UNCHANGED archiver_vars

\* lines 87-94 (chewwy_root_cfg, lines 66-68, is load_cfg on the root's file)
LoadRootCfg ==
    /\ pc = "load_root"
    /\ IF chewwy_root = None
       THEN /\ chewwy_root_cfg' = None
            /\ pc' = "main"
            /\ UNCHANGED loads
       ELSE \E read \in ReadOutcomes("root") :
              LET loaded == load_cfg(read)
              IN /\ loads' = Append(loads, [layer   |-> "root",
                                            outcome |-> loaded.outcome])
                 /\ chewwy_root_cfg' = loaded.cfg
                 /\ pc' = IF \/ loaded.outcome = "Ok"
                              \/ root_layer_absent_on(loaded.outcome)
                           THEN "main" ELSE "abort"
    /\ UNCHANGED <<arg_cfg, cfg, waited, config_file, subcommand, chewwy_root,
                   unnest_result, compressed_file_at>>
    /\ UNCHANGED archiver_vars

InitRun ==
    /\ pc = "start"
    /\ config_file \in {None, Some("explicit.toml")}
    /\ subcommand \in Commands
    /\ chewwy_root = None
    /\ loads = <<>>
    /\ arg_cfg = None
    /\ chewwy_root_cfg = None
    /\ cfg = None
    /\ ArchiverIdle
    /\ ManageIdle

NextRun ==
    \/ SearchChewwyRoot
    \/ LoadArgCfg
    \/ LoadRootCfg
    \/ Next

SpecRun == InitRun /\ [][NextRun]_vars

(***************************************************************************)
(* Reading a layer: the Configure value a layer holds for a field, unset   *)
(* when the layer is absent or any enclosing struct is unset.              *)
(***************************************************************************)
ManageOf(layer) ==
    IF layer = None THEN None
    ELSE IF c(layer).commands = None THEN None
    ELSE c(c(layer).commands).manage

ManageField(layer, f) ==
    IF ManageOf(layer) = None THEN None ELSE c(ManageOf(layer))[f]

DirectoryField(layer, d) ==
    IF ManageField(layer, "directories") = None THEN None
    ELSE c(ManageField(layer, "directories"))[d]

ManageValueFields ==
    {"smart_decompress_directory", "search_file", "output_file_action",
     "compressed_file_action"}

DirectoryNames == {"search", "output", "archive"}

\* explicit, else root, else default
FirstSet(explicit, root, default) ==
    IF explicit # None THEN explicit
    ELSE IF root # None THEN root ELSE default

\* C1: after main's merge every value field of commands.manage, and each of
\* directories.search/output/archive on its own, holds the explicit layer's
\* value if that layer sets it, else the root layer's if that one sets it,
\* else the default's.
C1_Precedence ==
    pc = "merged" =>
        /\ \A f \in ManageValueFields :
              ManageField(Some(cfg), f) =
                  FirstSet(ManageField(arg_cfg, f),
                           ManageField(chewwy_root_cfg, f),
                           ManageField(Some(DefaultCfg), f))
        /\ \A d \in DirectoryNames :
              DirectoryField(Some(cfg), d) =
                  FirstSet(DirectoryField(arg_cfg, d),
                           DirectoryField(chewwy_root_cfg, d),
                           DirectoryField(Some(DefaultCfg), d))

\* A merged configuration assembled from all three layers: both layers set
\* smart-decompress-directory differently, only the root sets search-file and
\* directories.output, only the explicit layer sets directories.search, and
\* nobody but the default sets directories.archive.
C1_Witness ==
    /\ pc = "merged"
    /\ ManageField(arg_cfg, "smart_decompress_directory") = Some(FALSE)
    /\ ManageField(chewwy_root_cfg, "smart_decompress_directory") = Some(TRUE)
    /\ ManageField(arg_cfg, "search_file") = None
    /\ ManageField(chewwy_root_cfg, "search_file") = Some(FALSE)
    /\ DirectoryField(arg_cfg, "search") # None
    /\ DirectoryField(arg_cfg, "output") = None
    /\ DirectoryField(chewwy_root_cfg, "output") # None
    /\ DirectoryField(chewwy_root_cfg, "search") # None
    /\ DirectoryField(arg_cfg, "archive") = None
    /\ DirectoryField(chewwy_root_cfg, "archive") = None
    /\ ManageField(Some(cfg), "smart_decompress_directory") = Some(FALSE)
    /\ ManageField(Some(cfg), "search_file") = Some(FALSE)
    /\ DirectoryField(Some(cfg), "search") = Some(Some(<<"explicit", "search">>))
    /\ DirectoryField(Some(cfg), "output") = Some(Some(<<"root", "output">>))
    /\ DirectoryField(Some(cfg), "archive") = Some(Some(<<"default", "archive">>))

(***************************************************************************)
(* Format tables of the layers                                             *)
(***************************************************************************)
\* The format names a layer defines: none when the layer is absent or does
\* not set the format table.
FormatKeys(layer) ==
    IF layer = None THEN {}
    ELSE IF c(layer).formats = None THEN {}
    ELSE DOMAIN c(c(layer).formats)

FormatField(layer, name, f) ==
    IF name \in FormatKeys(layer) THEN c(c(layer).formats)[name][f] ELSE None

\* C2: merging layers that set the format table copies the format names that
\* only one of them has, so the merged table's key set is the union of the
\* layers' key sets (a layer without a table contributing none).
C2_KeyUnion ==
    pc = "merged" =>
        FormatKeys(Some(cfg)) =
            FormatKeys(arg_cfg) \cup FormatKeys(chewwy_root_cfg)
                \cup FormatKeys(Some(DefaultCfg))

\* C3: a format name the explicit or the root layer defines and the default
\* does not is in the merged table, its two fields as the defining layer set
\* them (the explicit layer's field first where both layers define the name).
C3_CustomFormatKept ==
    pc = "merged" =>
        \A name \in (FormatKeys(arg_cfg) \cup FormatKeys(chewwy_root_cfg))
                        \ FormatKeys(Some(DefaultCfg)) :
            /\ name \in FormatKeys(Some(cfg))
            /\ \A f \in {"extensions", "decompress"} :
                   FormatField(Some(cfg), name, f) =
                       FirstSet(FormatField(arg_cfg, name, f),
                                FormatField(chewwy_root_cfg, name, f), None)

\* C4: over the fully populated default, the merge of any partially
\* populated layers leaves unset none of the fields command_manage
\* dereferences (formats, commands, commands.manage, its four value fields,
\* directories and its three entries), nor a field of a format the default
\* names.
C4_FullyPopulated ==
    pc = "merged" =>
        /\ ManageDerefsSet(cfg)
        /\ \A name \in FormatKeys(Some(cfg)) \cap FormatKeys(Some(DefaultCfg)) :
               /\ is_some(c(cfg.formats)[name].extensions)
               /\ is_some(c(cfg.formats)[name].decompress)

\* Two partially populated layers: the explicit one has a commands table
\* with manage unset and overrides one field of the default's format, the
\* root one sets only part of commands.manage; the merge is complete.
C4_Witness ==
    /\ pc = "merged"
    /\ arg_cfg # None
    /\ chewwy_root_cfg # None
    /\ c(arg_cfg).commands = Some([manage |-> None])
    /\ ManageField(chewwy_root_cfg, "search_file") = None
    /\ ManageField(chewwy_root_cfg, "compressed_file_action") = Some("DoNothing")
    /\ FormatField(arg_cfg, "zip", "extensions") # None
    /\ FormatField(arg_cfg, "zip", "decompress") = None
    /\ ManageDerefsSet(cfg)
    /\ FormatField(Some(cfg), "zip", "decompress") # None

\* C5: whatever the layers hold, a custom format setting only one of its
\* fields included, the run never aborts on an unset field.
C5_NeverPanics == pc # "panic"

(***************************************************************************)
(* find_format                                                             *)
(***************************************************************************)
\* The candidate suffixes of a name, by the position of the dot they follow:
\* a smaller position is a longer suffix.
DotPositions(name) == {p \in 1..Len(name) : name[p] = "."}

SuffixAfter(name, p) == SubSeq(name, p + 1, Len(name))

Claims(table, name, e) ==
    /\ table[name].extensions # None
    /\ e \in c(table[name].extensions)

Claimed(table, e) == \E name \in DOMAIN table : Claims(table, name, e)

FindFormatReturned == pc \in {"format_resolved", "spawn", "wait", "done"}

\* The table of the unit test
IsTestTable(table) ==
    /\ DOMAIN table = {"first", "second", "third"}
    /\ table["first"].extensions = Some({abc})
    /\ table["second"].extensions = Some({abc_def})
    /\ table["third"].extensions = Some({def})

\* C6: the format find_format returns claims a candidate suffix of the file
\* name, and no format claims a longer candidate suffix; on the unit test's
\* table f.abc and f.h.abc resolve to first, f.def to third, f.abc.def to
\* second.
C6_LongestSuffixFirst ==
    FindFormatReturned =>
        /\ found_format # None =>
              \E p \in DotPositions(file) :
                 /\ Claims(formats, c(found_format), SuffixAfter(file, p))
                 /\ \A q \in DotPositions(file) :
                        q < p => ~Claimed(formats, SuffixAfter(file, q))
        /\ IsTestTable(formats) =>
              /\ file = <<"f", ".">> \o abc => found_format = Some("first")
              /\ file = <<"f", ".", "h", ".">> \o abc =>
                     found_format = Some("first")
              /\ file = <<"f", ".">> \o def => found_format = Some("third")
              /\ file = <<"f", ".">> \o abc_def => found_format = Some("second")

\* f.abc.def on a table where one format claims abc.def, another def and a
\* third abc: the format of the longest suffix is returned.
C6_Witness ==
    /\ FindFormatReturned
    /\ file = <<"f", ".">> \o abc_def
    /\ DOMAIN formats = {"first", "second", "third"}
    /\ Claims(formats, "first", abc_def)
    /\ ~Claims(formats, "second", abc_def)
    /\ Claims(formats, "second", def)
    /\ Claims(formats, "third", abc)
    /\ ~Claims(formats, "third", abc_def)
    /\ found_format = Some("first")

\* C7: find_format returns none exactly when no format claims a candidate
\* suffix of the file name; a name without a dot has no candidate suffix.
C7_NoneIffUnclaimed ==
    FindFormatReturned =>
        (found_format = None <=>
            ~\E p \in DotPositions(file) :
                 Claimed(formats, SuffixAfter(file, p)))

\* The file named abc, without a dot, on a table that claims abc
C7_Witness ==
    /\ FindFormatReturned
    /\ file = abc
    /\ Claimed(formats, abc)
    /\ found_format = None

\* The first (longest) candidate suffix of the file that a format claims
WinningSuffix ==
    LET p == CHOOSE p \in DotPositions(file) :
                 /\ Claimed(formats, SuffixAfter(file, p))
                 /\ \A q \in DotPositions(file) :
                        q < p => ~Claimed(formats, SuffixAfter(file, q))
    IN SuffixAfter(file, p)

\* C8: when several formats list the winning suffix, find_format returns
\* the one whose name is lexicographically first.
C8_TieBrokenByName ==
    (FindFormatReturned /\ found_format # None) =>
        \A name \in DOMAIN formats :
            Claims(formats, name, WinningSuffix) =>
                Rank(c(found_format)) <= Rank(name)

(***************************************************************************)
(* decompress_to_dir                                                       *)
(***************************************************************************)
\* C9: the launches attempted are the resolved format's commands in declared
\* order, every launch before the last failed with NotFound, and a launch
\* that failed otherwise is the last one: the call has ended with
\* RunCommandError naming that command and its error.
C9_CommandsInOrder ==
    Len(spawned) > 0 =>
        /\ Len(spawned) <= Len(decompress_commands)
        /\ \A j \in 1..Len(spawned) :
               spawned[j].command = decompress_commands[j]
        /\ \A j \in 1..(Len(spawned) - 1) : spawned[j].outcome = "NotFound"
        /\ \A j \in 1..Len(spawned) :
               spawned[j].outcome \notin {"Ok", "NotFound"} =>
                   /\ j = Len(spawned)
                   /\ pc = "done"
                   /\ child = None
                   /\ result # None
                   /\ c(result).err = "RunCommandError"
                   /\ c(result).command = decompress_commands[j]
                   /\ c(result).io = spawned[j].outcome
                   /\ c(result).format = c(found_format)

\* Three commands: the first is not found, the second cannot be launched
\* for another reason, the third is never attempted.
C9_Witness ==
    /\ pc = "done"
    /\ found_format # None
    /\ Len(decompress_commands) = 3
    /\ Len(spawned) = 2
    /\ spawned[1].outcome = "NotFound"
    /\ spawned[2].outcome = "PermissionDenied"
    /\ c(result).err = "RunCommandError"
    /\ c(result).command = decompress_commands[2]

\* C10: a call that resolved a format and found every one of its commands
\* missing (an empty list included) ends with NoCommandAvailable carrying
\* the file and the format name, no child started or waited on.
C10_NoCommandAvailable ==
    (/\ pc = "done"
     /\ found_format # None
     /\ Len(spawned) = Len(decompress_commands)
     /\ \A j \in 1..Len(spawned) : spawned[j].outcome = "NotFound") =>
        /\ result = Some([err |-> "NoCommandAvailable", file |-> file,
                          found_format_name |-> c(found_format)])
        /\ child = None

\* Both commands of a format were tried and not found.
C10_Witness ==
    /\ pc = "done"
    /\ found_format # None
    /\ Len(spawned) = 2
    /\ Len(decompress_commands) = 2
    /\ \A j \in 1..2 : spawned[j].outcome = "NotFound"
    /\ c(result).err = "NoCommandAvailable"
    /\ c(result).found_format_name = c(found_format)
    /\ child = None

\* The launches that succeeded
Launched == {j \in 1..Len(spawned) : spawned[j].outcome = "Ok"}

\* C11: a call launches at most one child and attempts nothing after it;
\* a child exists exactly when a launch succeeded; a call that returns
\* success launched exactly one child and waited for it.
C11_OneChild ==
    /\ Cardinality(Launched) <= 1
    /\ \A j \in Launched : j = Len(spawned)
    /\ child # None <=> Launched # {}
    /\ waited # None => child # None
    /\ (result # None /\ "ok" \in DOMAIN c(result)) =>
           /\ Cardinality(Launched) = 1
           /\ child # None
           /\ waited # None

\* The second of three commands launches and its child fails: the third
\* command is not attempted.
C11_Witness ==
    /\ pc = "done"
    /\ found_format # None
    /\ Len(decompress_commands) = 3
    /\ Len(spawned) = 2
    /\ spawned[1].outcome = "NotFound"
    /\ spawned[2].outcome = "Ok"
    /\ child # None
    /\ c(result) = [err |-> "ChildReturnErrorCode",
                    command_str |-> c(child).command,
                    command |-> decompress_commands[2],
                    code |-> 1,
                    format |-> c(found_format)]

\* C12: once a command has launched, the result is decided by how the wait
\* ends: success iff the exit status is zero, ChildReturnErrorCode with the
\* code for another exit code, ChildError for no exit code,
\* ChildWaitReturnError with the error when the wait itself fails.
C12_WaitDecides ==
    (child # None /\ result # None) =>
        /\ waited # None
        /\ "ok" \in DOMAIN c(result) <=>
               /\ "status" \in DOMAIN c(waited)
               /\ c(waited).status.code = Some(0)
        /\ \A n \in ExitCodes \ {0} :
               c(waited) = [status |-> [code |-> Some(n)]] =>
                   /\ "err" \in DOMAIN c(result)
                   /\ c(result).err = "ChildReturnErrorCode"
                   /\ c(result).code = n
        /\ c(waited) = [status |-> [code |-> None]] =>
               /\ "err" \in DOMAIN c(result)
               /\ c(result).err = "ChildError"
        /\ "io" \in DOMAIN c(waited) =>
               /\ "err" \in DOMAIN c(result)
               /\ c(result).err = "ChildWaitReturnError"
               /\ c(result).io = c(waited).io

\* The child exits with code 2.
C12_Witness ==
    /\ pc = "done"
    /\ child # None
    /\ waited = Some([status |-> [code |-> Some(2)]])
    /\ "err" \in DOMAIN c(result)
    /\ c(result).err = "ChildReturnErrorCode"
    /\ c(result).code = 2

\* C13: the call returns NoFormatAvailable, carrying the file, exactly when
\* find_format found no format, and then no command was formatted or
\* launched.
C13_NoFormatAvailable ==
    pc = "done" =>
        /\ found_format = None <=> result = Some([err |-> "NoFormatAvailable",
                                                  file |-> file])
        /\ found_format = None =>
               /\ spawned = <<>>
               /\ child = None
               /\ waited = None
        /\ found_format # None =>
               ("err" \in DOMAIN c(result) =>
                    c(result).err # "NoFormatAvailable")

\* f.zip on a table that claims other extensions only
C13_Witness ==
    /\ pc = "done"
    /\ file = <<"f", ".">> \o zip
    /\ Claimed(formats, abc)
    /\ found_format = None
    /\ result = Some([err |-> "NoFormatAvailable", file |-> file])
    /\ spawned = <<>>

(***************************************************************************)
(* Startup                                                                 *)
(***************************************************************************)
LoadsOf(layer) == {j \in 1..Len(loads) : loads[j].layer = layer}

\* No command has run
NothingRun ==
    /\ cfg = None
    /\ formats = None
    /\ spawned = <<>>
    /\ result = None
    /\ compressed_file_at = "original"

\* C14: a root-layer load that fails with not-found leaves the root layer
\* absent and startup goes on to the merge; any other failure of it, and
\* every failure of the explicit layer's load, not-found included, aborts
\* startup before any command runs; without a project root no root-layer
\* load is attempted and the root layer is absent.
C14_LoadFailures ==
    /\ \A j \in LoadsOf("explicit") : loads[j].outcome # "Ok" => pc = "abort"
    /\ \A j \in LoadsOf("root") :
          /\ loads[j].outcome \notin {"Ok", "NotFound"} => pc = "abort"
          /\ loads[j].outcome = "NotFound" =>
                 /\ pc # "abort"
                 /\ chewwy_root_cfg = None
    /\ pc = "abort" => NothingRun
    /\ (pc \notin {"start", "abort"} /\ chewwy_root = None) =>
          /\ LoadsOf("root") = {}
          /\ chewwy_root_cfg = None
    /\ (pc = "merged" /\ chewwy_root_cfg = None) =>
          cfg = IF arg_cfg = None THEN DefaultCfg
                ELSE Cfg_struct_merge(c(arg_cfg), DefaultCfg)

\* The explicit layer loaded, the root's cfg.toml was not found, and the
\* merge was made of the explicit layer and the default.
C14_Witness ==
    /\ pc = "merged"
    /\ loads = <<[layer |-> "explicit", outcome |-> "Ok"],
                 [layer |-> "root", outcome |-> "NotFound"]>>
    /\ chewwy_root # None
    /\ chewwy_root_cfg = None
    /\ arg_cfg # None
    /\ cfg = Cfg_struct_merge(c(arg_cfg), DefaultCfg)

(***************************************************************************)
(* command_manage                                                          *)
(***************************************************************************)
ManageCfg == c(c(cfg.commands).manage)

DecompressFailed == result # None /\ "err" \in DOMAIN c(result)

OutputNotConfigured ==
    /\ cfg # None
    /\ EntryDerefsSet(cfg)
    /\ c(c(ManageCfg.directories).output) = None

\* C15: the compressed file is at the archive directory only when
\* decompress_to_dir has returned Ok, unnest_dir, run exactly when
\* smart-decompress-directory is on and only after that Ok, has returned
\* Ok, Empty or NotNested, and the action is the move; when decompress_to_dir
\* returned an error, or unnest_dir an I/O error, or the output directory is
\* not configured, the command does not succeed and the file is where it
\* was; with the output directory not configured decompress_to_dir is not
\* even called.
C15_MoveOnlyAfterSuccess ==
    /\ compressed_file_at = "archive" =>
          /\ pc = "manage_ok"
          /\ result = Some([ok |-> TRUE])
          /\ ManageCfg.compressed_file_action = Some("MoveToArchiveDir")
          /\ IF c(ManageCfg.smart_decompress_directory)
             THEN unnest_result \in {Some("Ok"), Some("Empty"), Some("NotNested")}
             ELSE unnest_result = None
    /\ unnest_result # None =>
          /\ result = Some([ok |-> TRUE])
          /\ ManageCfg.smart_decompress_directory = Some(TRUE)
    /\ pc \in {"unnest", "compressed_file_action", "manage_ok"} =>
          result = Some([ok |-> TRUE])
    /\ DecompressFailed =>
          /\ pc \in {"done", "manage_failed"}
          /\ unnest_result = None
          /\ compressed_file_at = "original"
    /\ unnest_result = Some("Io") =>
          /\ pc = "manage_failed"
          /\ compressed_file_at = "original"
    /\ OutputNotConfigured =>
          /\ pc \in {"merged", "manage_failed", "panic"}
          /\ formats = None
          /\ result = None
          /\ compressed_file_at = "original"

\* Decompression exited with 0, unnest_dir found the directory not nested,
\* and the compressed file was then moved to the archive directory.
C15_Witness ==
    /\ pc = "manage_ok"
    /\ waited = Some([status |-> [code |-> Some(0)]])
    /\ result = Some([ok |-> TRUE])
    /\ unnest_result = Some("NotNested")
    /\ compressed_file_at = "archive"

====
